---- MODULE Spec2Model ----
(***************************************************************************)
(* Model of the BF6 stats pipeline: the HTTP client with its rate limiter  *)
(* and bounded retry (src/src/api.py), the resolve/fetch pipeline          *)
(* (src/src/pipeline.py), the three storage writers (src/src/storage.py)   *)
(* and the command-line entry point (src/main.py).                         *)
(*                                                                         *)
(* Time is counted in whole seconds.  A JSON value is a tagged record; a   *)
(* JSON object is a function from its keys to numbers.                     *)
(***************************************************************************)
EXTENDS Integers, Sequences, FiniteSets, TLC

VARIABLES client, call, wire, ncalls, pl, world, fs, sto, m

vars == <<client, call, wire, ncalls, pl, world, fs, sto, m>>

---------------------------------------------------------------------------
(* Constants of the program *)

DEFAULT_RATE_LIMIT_SEC == 1
MAX_RETRIES == 3
RETRY_BACKOFF_SEC == 1
\* r.text[:200]
TEXT_LIMIT == 200
\* get_stats_batch: "Maximum 128 players per batch"
MAX_BATCH_IDS == 128
BATCH_SIZE == 128

(* Bounds of the model *)

\* longest time, in seconds, one HTTP exchange takes
MaxLatency == 1
\* largest value of the monotonic clock when the client is constructed
MaxStartClock == 1
\* largest configured rate limit, in seconds
MaxRateLimit == 2
\* logical calls made on one client in SpecClient
MaxCalls == 2
\* longest player list whose every variation is explored
MaxPlayers == 2
\* longest result list handed to the storage writers
MaxResults == 2
\* calls of storage writers in SpecStorage
MaxWrites == 2
\* longest --players expression, in characters
MaxArgLen == 3

\* length of the long player list that alternates between two platforms
MixedCount == 2 * BATCH_SIZE + 4
\* the longest player list: 300 ids make chunks of 128, 128 and 44
MaxListLen == 2 * BATCH_SIZE + 44
\* lengths of the long player lists, around the batch size
BigCounts == {BATCH_SIZE, BATCH_SIZE + 1, MaxListLen}

---------------------------------------------------------------------------
(* JSON values *)

Min(a, b) == IF a < b THEN a ELSE b

Last(s) == s[Len(s)]

NoDict == [k \in {} |-> 0]
JNum(n)  == [t |-> "num",  n |-> n, d |-> NoDict, l |-> <<>>]
JDict(f) == [t |-> "dict", n |-> 0, d |-> f,      l |-> <<>>]
JList(s) == [t |-> "list", n |-> 0, d |-> NoDict, l |-> s]
JNull    == [t |-> "null", n |-> 0, d |-> NoDict, l |-> <<>>]

\* A response body: its text (an identity and a length) and, when the text
\* parses as JSON, the value it parses to.
Body(valid, json, len) == [valid |-> valid, json |-> json, len |-> len]

\* r.text[:200]
Truncate(body) == [body EXCEPT !.len = Min(body.len, TEXT_LIMIT)]

\* An HTTP exchange: status 0 stands for requests.RequestException (no
\* response at all); latency is the time the exchange takes.
Response(status, body, latency) ==
    [status |-> status, body |-> body, latency |-> latency]

---------------------------------------------------------------------------
(* BF6APIClient: rate limiter and bounded retry *)

\* The message of a BF6APIError: its kind, the HTTP status it names, the
\* reported error list (-1: none) and the length of the embedded text.
ErrorRec(kind, status, errors, len) ==
    [kind |-> kind, status |-> status, errors |-> errors, len |-> len]

NoError == ErrorRec("none", 0, -1, 0)

\* BF6APIClient.__init__: the clock reading is the client's view of
\* time.monotonic().
NewClient(clock, rate) ==
    [now |-> clock,
     rate_limit_sec |-> rate,
     max_retries |-> MAX_RETRIES,
     last_request_time |-> 0]

\* Variant of _wait_rate_limit that stamps the time without sleeping.
WaitRateLimitNoSleep(c) == [c EXCEPT !.last_request_time = c.now]

\* _wait_rate_limit: sleep for what is left of the interval, then stamp.
WaitRateLimit(c) ==
    LET elapsed == c.now - c.last_request_time
        woke == IF elapsed < c.rate_limit_sec
                THEN c.now + (c.rate_limit_sec - elapsed)
                ELSE c.now
    IN  [c EXCEPT !.now = woke, !.last_request_time = woke]

\* Variant of _sleep_or_raise whose test for the last attempt is off by one.
SleepOrRaiseOffByOne(c, attempt, message) ==
    IF attempt = c.max_retries
    THEN [raise |-> TRUE, error |-> message, client |-> c, slept |-> <<>>]
    ELSE [raise |-> FALSE, error |-> ErrorRec("none", 0, -1, 0),
          client |-> [c EXCEPT !.now = @ + RETRY_BACKOFF_SEC * (attempt + 1)],
          slept |-> <<RETRY_BACKOFF_SEC * (attempt + 1)>>]

\* _sleep_or_raise: raise on the last attempt, else sleep the backoff.
SleepOrRaise(c, attempt, message) ==
    IF attempt = c.max_retries - 1
    THEN [raise |-> TRUE, error |-> message, client |-> c, slept |-> <<>>]
    ELSE [raise |-> FALSE, error |-> NoError,
          client |-> [c EXCEPT !.now = @ + RETRY_BACKOFF_SEC * (attempt + 1)],
          slept |-> <<RETRY_BACKOFF_SEC * (attempt + 1)>>]

\* f"Request failed: {e}"
RequestFailed(r) == ErrorRec("Request failed", 0, -1, r.body.len)

\* f"Server error {r.status_code}: {r.text[:200]}"
ServerError(r) == ErrorRec("Server error", r.status, -1, Truncate(r.body).len)

\* f"API error {r.status_code}: {errors}" with errors = err.get("errors",
\* [r.text[:200]]), or [r.text[:200]] when the body is no JSON object.
ApiError(r) ==
    IF r.body.valid /\ r.body.json.t = "dict" /\ "errors" \in DOMAIN r.body.json.d
    THEN ErrorRec("API error", r.status, r.body.json.d["errors"], 0)
    ELSE ErrorRec("API error", r.status, -1, Truncate(r.body).len)

\* f"Invalid JSON response: {e}"
InvalidJson(r) == ErrorRec("Invalid JSON response", r.status, -1, 0)

\* What one pass through the loop body of _request leaves behind.
Outcome(next, c, waitedAt, sentAt, slept, error, value) ==
    [next |-> next, client |-> c, waitedAt |-> waitedAt, sentAt |-> sentAt,
     slept |-> slept, error |-> error, value |-> value]

\* Variant of the loop body that retries every status >= 400.
AttemptRetrying4xx(c, attempt, r) ==
    LET w == WaitRateLimit(c)
        a == [w EXCEPT !.now = @ + r.latency]
        retry(msg) ==
            LET s == SleepOrRaise(a, attempt, msg)
            IN  Outcome(IF s.raise THEN "raise" ELSE "continue", s.client,
                        c.now, w.now, s.slept, s.error, JNull)
    IN  IF r.status = 0 THEN retry(RequestFailed(r))
        ELSE IF r.status >= 400 THEN retry(ServerError(r))
        ELSE IF r.body.valid
             THEN Outcome("return", a, c.now, w.now, <<>>, NoError, r.body.json)
        ELSE Outcome("raise", a, c.now, w.now, <<>>, InvalidJson(r), JNull)

\* One iteration of the retry loop of _request, the HTTP exchange answering
\* with r: "continue", "return" or "raise".
Attempt(c, attempt, r) ==
    LET w == WaitRateLimit(c)
        a == [w EXCEPT !.now = @ + r.latency]
        retry(msg) ==
            LET s == SleepOrRaise(a, attempt, msg)
            IN  Outcome(IF s.raise THEN "raise" ELSE "continue", s.client,
                        c.now, w.now, s.slept, s.error, JNull)
    IN  IF r.status = 0 THEN retry(RequestFailed(r))
        ELSE IF r.status >= 500 THEN retry(ServerError(r))
        ELSE IF r.status >= 400
             THEN Outcome("raise", a, c.now, w.now, <<>>, ApiError(r), JNull)
        ELSE IF r.body.valid
             THEN Outcome("return", a, c.now, w.now, <<>>, NoError, r.body.json)
        ELSE Outcome("raise", a, c.now, w.now, <<>>, InvalidJson(r), JNull)

\* The k-th answer of a script of HTTP exchanges (the last one repeats).
Answer(script, k) == script[Min(k, Len(script))]

\* _request: the whole logical call, the server answering with script.
RECURSIVE RequestFrom(_, _, _, _, _)
RequestFrom(c, attempt, script, sends, sleeps) ==
    IF attempt >= c.max_retries
    THEN [ok |-> FALSE, value |-> JNull,
          error |-> ErrorRec("Max retries exceeded", 0, -1, 0),
          client |-> c, sends |-> sends, sleeps |-> sleeps]
    ELSE LET o == Attempt(c, attempt, Answer(script, attempt + 1))
         IN  IF o.next = "continue"
             THEN RequestFrom(o.client, attempt + 1, script,
                              Append(sends, o.sentAt), sleeps \o o.slept)
             ELSE [ok |-> o.next = "return", value |-> o.value,
                   error |-> o.error, client |-> o.client,
                   sends |-> Append(sends, o.sentAt),
                   sleeps |-> sleeps \o o.slept]

Request(c, script) == RequestFrom(c, 0, script, <<>>, <<>>)

---------------------------------------------------------------------------
(* BF6APIClient: the three endpoints *)

\* Python's None for an argument that is a string otherwise.
None == "<None>"

\* What a call of an endpoint leaves behind: the exception it ended with
\* ("none" when it returned), the value returned, the error message, the
\* client afterwards and the HTTP requests and backoff sleeps it took.
Returned(value, q) ==
    [exc |-> "none", value |-> value, error |-> NoError,
     client |-> q.client, sends |-> q.sends, sleeps |-> q.sleeps]

Raised(exc, error, q) ==
    [exc |-> exc, value |-> JNull, error |-> error,
     client |-> q.client, sends |-> q.sends, sleeps |-> q.sleeps]

\* A call that ends before any HTTP request is made.
NoRequest(c) == [client |-> c, sends |-> <<>>, sleeps |-> <<>>]

\* get_player_id, after _request has answered q.
PlayerIdResult(q) ==
    LET data == q.value
    IN  IF ~q.ok THEN Raised("BF6APIError", q.error, q)
        ELSE IF data.t = "dict" /\ "id" \in DOMAIN data.d THEN Returned(data, q)
        ELSE IF data.t = "list" /\ data.l # <<>>
             THEN Returned(IF data.l[1].t = "dict"
                           THEN data.l[1]
                           ELSE JDict("id" :> data.l[1].n), q)
        ELSE Raised("BF6APIError", ErrorRec("Could not resolve player", 0, -1, 0), q)

GetPlayerId(c, name, platform, script) == PlayerIdResult(Request(c, script))

\* get_stats, after _request has answered q.
StatsResult(q) ==
    IF q.ok THEN Returned(q.value, q) ELSE Raised("BF6APIError", q.error, q)

\* get_stats: whether the arguments name a player at all.
StatsArgsOk(name, player_id) == player_id # None \/ (name # None /\ name # "")

GetStats(c, name, player_id, platform, script) ==
    IF StatsArgsOk(name, player_id)
    THEN StatsResult(Request(c, script))
    ELSE Raised("ValueError", ErrorRec("Provide either name or player_id", 0, -1, 0),
                NoRequest(c))

\* get_stats_batch, after _request has answered q.  The list under the
\* "result" key of an object is kept in the object's l field.
BatchResult(q) ==
    LET data == q.value
    IN  IF ~q.ok THEN Raised("BF6APIError", q.error, q)
        ELSE IF data.t = "list" THEN Returned(data, q)
        ELSE IF data.t = "dict" /\ "result" \in DOMAIN data.d
             THEN Returned(JList(data.l), q)
        ELSE IF data.t = "dict" THEN Returned(JList(<<data>>), q)
        ELSE Returned(JList(<<>>), q)

\* get_stats_batch: "empty", "toomany" or "post" for a list of n ids.
BatchArgs(n) ==
    IF n = 0 THEN "empty" ELSE IF n > MAX_BATCH_IDS THEN "toomany" ELSE "post"

GetStatsBatch(c, player_ids, platform, script) ==
    IF BatchArgs(Len(player_ids)) = "empty" THEN Returned(JList(<<>>), NoRequest(c))
    ELSE IF BatchArgs(Len(player_ids)) = "toomany"
         THEN Raised("ValueError", ErrorRec("Maximum 128 players per batch", 0, -1, 0),
                     NoRequest(c))
    ELSE BatchResult(Request(c, script))

\* The logical call a client is serving: the endpoint, the attempt the
\* retry loop is at, the answers so far, the times of the HTTP requests and
\* the backoff sleeps taken, the number of exceptions raised to the caller
\* and what the endpoint came to.
IdleCall ==
    [phase |-> "idle", op |-> "none", attempt |-> 0, script |-> <<>>,
     sends |-> <<>>, sleeps |-> <<>>, raises |-> 0,
     res |-> Returned(JNull, NoRequest(NewClient(0, 0)))]

\* The call of an endpoint that goes on to _request.
StartCall(op) == [IdleCall EXCEPT !.phase = "running", !.op = op]

\* The call of an endpoint that ends without a request.
LocalCall(op, res) ==
    [IdleCall EXCEPT !.phase = "done", !.op = op, !.res = res,
                     !.raises = IF res.exc = "none" THEN 0 ELSE 1]

NoWire ==
    [prev |-> -1, last |-> -1, waitedAt |-> -1, count |-> 0,
     prevOp |-> "none", lastOp |-> "none"]

---------------------------------------------------------------------------
(* What the network answers *)

\* The bodies of an answer: a JSON object, an object reporting errors, text
\* that is no JSON, and the text of a network-level exception.
ObjBody     == Body(TRUE, JDict("id" :> 7 @@ "kills" :> 10), 40)
ErrorsBody  == Body(TRUE, JDict("errors" :> 1), 30)
GarbageBody == Body(FALSE, JNull, 300)
ExcText     == Body(FALSE, JNull, 25)

---------------------------------------------------------------------------
(* The server, as the pipeline sees it *)

\* The id the server knows the i-th configured player by.
PlayerId(i) == 100 + i

\* The ids the server knows.
KnownIds == { PlayerId(i) : i \in 1..MaxListLen }

\* str() of a number.
StrTable == [n \in KnownIds |-> ToString(n)]
Str(n) == IF n \in KnownIds THEN StrTable[n] ELSE ToString(n)

\* str() of a JSON object.
Repr == "{...}"

\* The full stats object of the player with id n.
StatsOf(n) == JDict("id" :> n @@ "userName" :> n @@ "kills" :> 10 + n)

\* How the server treats one logical call.
Behaviours == {"ok", "flaky", "down", "rejected", "garbled", "empty"}

ServerDown == <<Response(0, ExcText, MaxLatency),
                Response(500, GarbageBody, MaxLatency),
                Response(500, GarbageBody, MaxLatency)>>

\* The HTTP exchanges of a logical call the server treats as b, value being
\* what it answers when it answers well and odd what it answers instead of
\* an expected shape.
Script(b, value, odd) ==
    IF b = "ok" THEN <<Response(200, Body(TRUE, value, 40), MaxLatency)>>
    ELSE IF b = "flaky"
         THEN <<Response(500, GarbageBody, MaxLatency),
                Response(200, Body(TRUE, value, 40), MaxLatency)>>
    ELSE IF b = "down" THEN ServerDown
    ELSE IF b = "rejected" THEN <<Response(404, ErrorsBody, MaxLatency)>>
    ELSE IF b = "garbled" THEN <<Response(200, GarbageBody, MaxLatency)>>
    ELSE <<Response(200, Body(TRUE, odd, 2), MaxLatency)>>

\* GET /bf6/player/ for the i-th player: an object with an id, or (odd) an
\* empty list.
ResolveScript(b, i) ==
    Script(b, JDict("id" :> PlayerId(i) @@ "userName" :> PlayerId(i)), JList(<<>>))

\* GET /bf6/stats/ for the i-th player by name.
StatsScript(b, i) == Script(b, StatsOf(PlayerId(i)), JList(<<>>))

\* The id a string of digits names, for the ids the server knows.
IdOf ==
    [s \in { StrTable[n] : n \in KnownIds } |->
        CHOOSE n \in KnownIds : StrTable[n] = s]

\* The stats of the ids of a chunk the server knows, in the order asked.
ChunkStats(chunk) ==
    LET known == SelectSeq(chunk, LAMBDA s : s \in DOMAIN IdOf)
    IN  [k \in 1..Len(known) |-> StatsOf(IdOf[known[k]])]

\* How the server treats one batch call: as a logical call, or answering
\* the list wrapped in an object under "result".
BatchBehaviours == {"ok", "wrapped", "down", "rejected", "empty"}

\* POST /bf6/multiple/ for a chunk of ids: a list of stats, that list under
\* "result", or (odd) null.
BatchScript(b, chunk) ==
    IF b = "wrapped"
    THEN <<Response(200,
                    Body(TRUE, [t |-> "dict", n |-> 0, d |-> ("result" :> 0),
                                l |-> ChunkStats(chunk)], 40),
                    MaxLatency)>>
    ELSE Script(b, JList(ChunkStats(chunk)), JNull)

---------------------------------------------------------------------------
(* run_pipeline *)

\* A PlayerDescriptor.
Descriptor(name, platform) == [name |-> name, platform |-> platform]

\* One call the pipeline made on the client: the endpoint, the player (its
\* index in the input) or the ids it was made for, the platform, the
\* exception the call ended with and the records it returned.
CallRec(op, i, ids, platform, exc, got) ==
    [op |-> op, i |-> i, ids |-> ids, platform |-> platform,
     exc |-> exc, got |-> got]

\* The state of run_pipeline after the client is constructed: where it
\* stands (pc), the loop indices, ids_by_platform as the list of its items
\* in insertion order, the results so far, the exception it ended with and
\* the calls it made.
StartPipeline(players, use_batch, rate, clock) ==
    [players |-> players,
     use_batch |-> use_batch,
     client |-> NewClient(clock, rate),
     pc |-> IF use_batch /\ Len(players) > 1 THEN "resolve"
            ELSE IF players = <<>> THEN "returned" ELSE "single",
     i |-> 1,
     groups |-> <<>>,
     g |-> 1,
     off |-> 0,
     results |-> <<>>,
     exc |-> "none",
     calls |-> <<>>]

\* ids_by_platform.setdefault(platform, []).append(pid)
SetDefaultAppend(groups, platform, pid) ==
    IF \E k \in 1..Len(groups) : groups[k].platform = platform
    THEN [k \in 1..Len(groups) |->
            IF groups[k].platform = platform
            THEN [groups[k] EXCEPT !.ids = Append(@, pid)]
            ELSE groups[k]]
    ELSE Append(groups, [platform |-> platform, ids |-> <<pid>>])

\* str(info.get("id", info) if isinstance(info, dict) else info)
PidOf(info) ==
    IF info.t = "dict"
    THEN IF "id" \in DOMAIN info.d THEN Str(info.d["id"]) ELSE Repr
    ELSE Str(info.n)

\* The first loop of batch mode, for player st.i: resolve the id and file
\* it under the platform, or drop the player on a client error.
ResolveStep(st, script) ==
    LET p == st.players[st.i]
        r == GetPlayerId(st.client, p.name, p.platform, script)
        last == st.i = Len(st.players)
        groups == IF r.exc = "none"
                  THEN SetDefaultAppend(st.groups, p.platform, PidOf(r.value))
                  ELSE st.groups
    IN  [st EXCEPT !.client = r.client,
                   !.calls = Append(@, CallRec("get_player_id", st.i, <<>>, p.platform,
                                             r.exc, <<>>)),
                   !.groups = groups,
                   !.i = @ + 1,
                   !.pc = IF r.exc \notin {"none", "BF6APIError"} THEN "raised"
                          ELSE IF ~last THEN "resolve"
                          ELSE IF groups = <<>> THEN "returned" ELSE "batch",
                   !.exc = IF r.exc \notin {"none", "BF6APIError"} THEN r.exc ELSE @]

\* id_list[i : i + BATCH_SIZE]
Chunk(id_list, off) == SubSeq(id_list, off + 1, Min(off + BATCH_SIZE, Len(id_list)))

\* The second loop of batch mode, for the chunk at st.off of group st.g:
\* fetch the chunk and extend the results.  No exception is handled here.
BatchStep(st, b) ==
    LET grp == st.groups[st.g]
        chunk == Chunk(grp.ids, st.off)
        r == GetStatsBatch(st.client, chunk, grp.platform, BatchScript(b, chunk))
        more == st.off + BATCH_SIZE < Len(grp.ids)
        lastGroup == st.g = Len(st.groups)
    IN  [st EXCEPT !.client = r.client,
                   !.calls = Append(@, CallRec("get_stats_batch", 0, chunk, grp.platform,
                                             r.exc, r.value.l)),
                   !.results = IF r.exc = "none" THEN @ \o r.value.l ELSE @,
                   !.off = IF more THEN @ + BATCH_SIZE ELSE 0,
                   !.g = IF more THEN @ ELSE @ + 1,
                   !.pc = IF r.exc # "none" THEN "raised"
                          ELSE IF more \/ ~lastGroup THEN "batch" ELSE "returned",
                   !.exc = r.exc]

\* The loop of single mode, for player st.i: fetch by name and append, or
\* skip the player on a client error.
SingleStep(st, script) ==
    LET p == st.players[st.i]
        r == GetStats(st.client, p.name, None, p.platform, script)
        last == st.i = Len(st.players)
    IN  [st EXCEPT !.client = r.client,
                   !.calls = Append(@, CallRec("get_stats", st.i, <<>>, p.platform, r.exc,
                                             IF r.exc = "none" THEN <<r.value>> ELSE <<>>)),
                   !.results = IF r.exc = "none" THEN Append(@, r.value) ELSE @,
                   !.i = @ + 1,
                   !.pc = IF r.exc \notin {"none", "BF6APIError"} THEN "raised"
                          ELSE IF last THEN "returned" ELSE "single",
                   !.exc = IF r.exc \notin {"none", "BF6APIError"} THEN r.exc ELSE @]

---------------------------------------------------------------------------
(* Storage writers *)

SUMMARY_KEYS ==
    <<"userName", "id", "userId", "kills", "deaths", "wins", "loses",
      "winPercent", "killDeath", "killsPerMinute", "damagePerMinute",
      "accuracy", "headshots", "timePlayed", "secondsPlayed",
      "matchesPlayed", "revives", "heals", "resupplies", "repairs">>

SQLITE_COLUMNS == <<"run_id", "fetched_at">> \o SUMMARY_KEYS

\* The elements of a sequence.
Range(s) == { s[k] : k \in 1..Len(s) }

\* strftime("%Y%m%d_%H%M%S") of the time t, in seconds.
Strftime(t) == "T" \o ToString(t)

\* Python's truth value of a run id: None and "" are false.
Truthy(run_id) == run_id # None /\ run_id # ""

\* _stats_filename
StatsFilename(run_id, extension, now) ==
    IF Truthy(run_id)
    THEN "stats_" \o run_id \o "." \o extension
    ELSE "stats_" \o Strftime(now) \o "." \o extension

\* output_dir / name
PathOf(output_dir, name) == [dir |-> output_dir, name |-> name]

\* The part of the file system the writers touch: whether the output
\* directory exists, the files in it by name and kind, and the store (its
\* file, its stats table and the rows of the table).
EmptyDisk ==
    [dir |-> FALSE,
     json |-> [f \in {} |-> <<>>],
     csv |-> [f \in {} |-> <<>>],
     db |-> [exists |-> FALSE, table |-> FALSE, rows |-> <<>>]]

\* _ensure_output_dir
EnsureOutputDir(disk) == [disk EXCEPT !.dir = TRUE]

\* One entry of a summary: a key and its value.
Item(k, v) == [k |-> k, v |-> v]

\* flatten_summary: fetched_at first, then the allow-list keys the record
\* has, in allow-list order.  A summary is the list of its items in
\* insertion order.
FlattenSummary(stats, now) ==
    <<Item("fetched_at", now)>> \o
    [j \in 1..Len(SelectSeq(SUMMARY_KEYS, LAMBDA key : key \in DOMAIN stats.d)) |->
        LET key == SelectSeq(SUMMARY_KEYS, LAMBDA k : k \in DOMAIN stats.d)[j]
        IN  Item(key, stats.d[key])]

\* The keys of a summary, in insertion order.
KeysOf(summary) == [j \in 1..Len(summary) |-> summary[j].k]

\* keys.append(k) for every k of ks not in keys.
RECURSIVE AppendNew(_, _)
AppendNew(keys, ks) ==
    IF ks = <<>> THEN keys
    ELSE AppendNew(IF ks[1] \in Range(keys) THEN keys ELSE Append(keys, ks[1]),
                   Tail(ks))

\* The loop of _all_summary_keys over summaries[1:].
RECURSIVE AllSummaryKeysFrom(_, _)
AllSummaryKeysFrom(keys, summaries) ==
    IF summaries = <<>> THEN keys
    ELSE AllSummaryKeysFrom(AppendNew(keys, KeysOf(summaries[1])), Tail(summaries))

\* Variant of _all_summary_keys that takes the first summary's keys only.
FirstSummaryKeys(summaries) == KeysOf(summaries[1])

\* _all_summary_keys
AllSummaryKeys(summaries) ==
    AllSummaryKeysFrom(KeysOf(summaries[1]), Tail(summaries))

\* A value written, or the lack of one (an empty CSV cell, an SQL NULL).
Cell(v) == [set |-> TRUE, v |-> v]
NoCell == [set |-> FALSE, v |-> 0]

\* summary.get(c)
SummaryGet(summary, c) ==
    IF \E j \in 1..Len(summary) : summary[j].k = c
    THEN Cell(summary[CHOOSE j \in 1..Len(summary) : summary[j].k = c].v)
    ELSE NoCell

\* What a writer leaves behind: the exception it ended with, the path it
\* returned, the disk afterwards and the result list as the writer left it.
Written(exc, path, disk, results) ==
    [exc |-> exc, path |-> path, disk |-> disk, results |-> results]

\* save_json: the raw result list, in a file named after the run.
SaveJson(disk, results, output_dir, run_id, now) ==
    LET name == StatsFilename(run_id, "json", now)
        d == EnsureOutputDir(disk)
    IN  Written("none", PathOf(output_dir, name),
                [d EXCEPT !.json = (name :> results) @@ @], results)

\* csv.DictWriter with extrasaction="ignore": one cell per field name.
CsvRow(fieldnames, summary) ==
    [j \in 1..Len(fieldnames) |-> SummaryGet(summary, fieldnames[j])]

\* save_csv: a header and one row per result; fails on an empty list.
SaveCsv(disk, results, output_dir, run_id, now) ==
    IF results = <<>>
    THEN Written("ValueError", PathOf(output_dir, ""), disk, results)
    ELSE LET summaries == [k \in 1..Len(results) |-> FlattenSummary(results[k], now)]
             d == EnsureOutputDir(disk)
             name == StatsFilename(run_id, "csv", now)
             fieldnames == AllSummaryKeys(summaries)
             rows == [k \in 1..Len(summaries) |-> CsvRow(fieldnames, summaries[k])]
         IN  Written("none", PathOf(output_dir, name),
                     [d EXCEPT !.csv = (name :> [header |-> fieldnames, rows |-> rows]) @@ @],
                     results)

\* The row save_sqlite inserts for one result.
SqliteRow(stat, rid, fetched_at) ==
    LET summary == FlattenSummary(stat, fetched_at)
    IN  [c \in Range(SQLITE_COLUMNS) |->
            IF c = "run_id" THEN [set |-> TRUE, v |-> rid]
            ELSE IF c = "fetched_at" THEN Cell(fetched_at)
            ELSE SummaryGet(summary, c)]

\* Variant of the inserts that replaces the rows of the table.
Replaced(rows, new) == new

\* The rows of the table after the inserts of one call are committed.
Inserted(rows, new) == rows \o new

\* save_sqlite: create the table if needed and append one row per result;
\* on an empty list only name the path.
SaveSqlite(disk, results, output_dir, db_name, run_id, now) ==
    IF results = <<>>
    THEN Written("none", PathOf(output_dir, db_name), disk, results)
    ELSE LET d == EnsureOutputDir(disk)
             rid == IF Truthy(run_id) THEN run_id ELSE Strftime(now)
             new == [k \in 1..Len(results) |-> SqliteRow(results[k], rid, now)]
         IN  Written("none", PathOf(output_dir, db_name),
                     [d EXCEPT !.db = [exists |-> TRUE, table |-> TRUE,
                                       rows |-> Inserted(d.db.rows, new)]],
                     results)

OutputDir == "output"
DbName == "bf6_stats.db"

\* The call of a writer: which one, with what, and what came of it.
WriterCall(op, results, run_id, before, w) ==
    [op |-> op, results |-> results, run_id |-> run_id, before |-> before,
     exc |-> w.exc, path |-> w.path, after |-> w.results]

NoWriterCall ==
    WriterCall("none", <<>>, None, EmptyDisk,
               Written("none", PathOf("", ""), EmptyDisk, <<>>))

---------------------------------------------------------------------------
(* Config loader and command line *)

\* A string given as the list of its characters, as one string.
RECURSIVE Join(_)
Join(cs) == IF cs = <<>> THEN "" ELSE cs[1] \o Join(Tail(cs))

\* str.strip()
RECURSIVE Strip(_)
Strip(cs) ==
    IF cs = <<>> THEN cs
    ELSE IF cs[1] = " " THEN Strip(Tail(cs))
    ELSE IF Last(cs) = " " THEN Strip(SubSeq(cs, 1, Len(cs) - 1))
    ELSE cs

\* str.split(sep): the pieces between the separators.
RECURSIVE Split(_, _)
Split(cs, sep) ==
    IF \A k \in 1..Len(cs) : cs[k] # sep THEN <<cs>>
    ELSE LET at == CHOOSE k \in 1..Len(cs) :
                       cs[k] = sep /\ \A j \in 1..(k - 1) : cs[j] # sep
         IN  <<SubSeq(cs, 1, at - 1)>> \o Split(SubSeq(cs, at + 1, Len(cs)), sep)

\* One part of the --players expression, stripped and not empty.
ParsePart(part) ==
    IF \E k \in 1..Len(part) : part[k] = ","
    THEN LET at == CHOOSE k \in 1..Len(part) :
                       part[k] = "," /\ \A j \in 1..(k - 1) : part[j] # ","
             name == SubSeq(part, 1, at - 1)
             platform == SubSeq(part, at + 1, Len(part))
         IN  Descriptor(Join(Strip(name)),
                        IF Strip(platform) = <<>> THEN "pc" ELSE Join(Strip(platform)))
    ELSE Descriptor(Join(Strip(part)), "pc")

\* parse_players_arg
ParsePlayersArg(cs) ==
    LET parts == SelectSeq(Split(cs, ";"), LAMBDA part : Strip(part) # <<>>)
    IN  [k \in 1..Len(parts) |-> ParsePart(Strip(parts[k]))]

\* A config file: whether it exists, its suffix, whether PyYAML is
\* installed, and what its text parses to: a syntax error, or a document
\* of some shape with a list of entries.
Config(exists, suffix, has_yaml, shape, entries) ==
    [exists |-> exists, suffix |-> suffix, has_yaml |-> has_yaml,
     shape |-> shape, entries |-> entries]

\* An entry of the players list: whether it is an object with a name, its
\* name, and its platform (None when it has none).
Entry(named, name, platform) ==
    [named |-> named, name |-> name, platform |-> platform]

\* What load_config came to.
Loaded(exc, players) == [exc |-> exc, players |-> players]

\* load_config.  A document is the players list itself ("list"), an object
\* with the list under "players" ("players"), or anything else.
LoadConfig(cfg) ==
    IF ~cfg.exists THEN Loaded("FileNotFoundError", <<>>)
    ELSE IF cfg.suffix \in {".yaml", ".yml"} /\ ~cfg.has_yaml
         THEN Loaded("ImportError", <<>>)
    ELSE IF cfg.suffix \in {".yaml", ".yml"} /\ cfg.shape = "syntax_error"
         THEN Loaded("YAMLError", <<>>)
    ELSE IF cfg.suffix = ".json" /\ cfg.shape = "syntax_error"
         THEN Loaded("ValueError", <<>>)
    ELSE IF cfg.suffix \notin {".yaml", ".yml", ".json"}
         THEN Loaded("ValueError", <<>>)
    ELSE IF cfg.shape \notin {"list", "players"}
         THEN Loaded("ValueError", <<>>)
    ELSE IF \E k \in 1..Len(cfg.entries) : ~cfg.entries[k].named
         THEN Loaded("ValueError", <<>>)
    ELSE Loaded("none",
                [k \in 1..Len(cfg.entries) |->
                    Descriptor(cfg.entries[k].name,
                               IF cfg.entries[k].platform = None
                               THEN "pc" ELSE cfg.entries[k].platform)])

---------------------------------------------------------------------------
(* main *)

\* The writers of main, in the order it runs them.
Writers == <<"json", "csv", "sqlite">>

\* args.format in (fmt, "all")
Selected(format, fmt) == format = fmt \/ format = "all"

\* The state of main: where it stands, its arguments (--players, given or
\* not, as the list of its characters), the players and
\* results it holds, the run id, the writer it is at, the calls of writers
\* it made, its clock, and how it ended (exit code -1: it has not).
IdleMain ==
    [pc |-> "idle", inline |-> [given |-> FALSE, text |-> <<>>], config |-> Config(FALSE, "", FALSE, "", <<>>),
     format |-> "json", no_batch |-> FALSE,
     players |-> <<>>, fetched |-> <<>>, results |-> <<>>, run_id |-> None,
     w |-> 1, writes |-> <<>>, now |-> 0, exit |-> 0 - 1, how |-> "running",
     exc |-> "none"]

\* return code
ReturnCode(st, code) == [st EXCEPT !.pc = "exited", !.exit = code, !.how = "returned"]

\* An exception main does not handle: sys.exit(main()) never gets a code
\* and the interpreter ends the process with status 1.
Uncaught(st, exc) ==
    [st EXCEPT !.pc = "exited", !.exit = 1, !.how = "uncaught", !.exc = exc]

\* main, from the parsed arguments to the check of the player list.
LoadPlayersStep(st) ==
    IF st.inline.given /\ st.inline.text # <<>>
    THEN LET players == ParsePlayersArg(st.inline.text)
         IN  IF players = <<>> THEN ReturnCode(st, 1)
             ELSE [st EXCEPT !.players = players, !.pc = "fetch"]
    ELSE LET l == LoadConfig(st.config)
         IN  IF l.exc = "FileNotFoundError" THEN ReturnCode(st, 1)
             ELSE IF l.exc \in {"ValueError", "ImportError"} THEN ReturnCode(st, 1)
             ELSE IF l.exc # "none" THEN Uncaught(st, l.exc)
             ELSE IF l.players = <<>> THEN ReturnCode(st, 1)
             ELSE [st EXCEPT !.players = l.players, !.pc = "fetch"]

\* Variant of main that leaves the run id at None.
NoRunId(now) == None

\* The run id main gives the writers.
RunIdOf(now) == Strftime(now)

\* main, from the call of run_pipeline (which ended as run) to the creation
\* of the output directory.
FetchStep(st, disk, run) ==
    IF run.pc = "raised"
    THEN [st |-> Uncaught([st EXCEPT !.now = @ + run.client.now], run.exc), disk |-> disk]
    ELSE IF run.results = <<>>
    THEN [st |-> ReturnCode([st EXCEPT !.now = @ + run.client.now], 1), disk |-> disk]
    ELSE [st |-> [st EXCEPT !.now = @ + run.client.now,
                            !.fetched = run.results,
                            !.results = run.results,
                            !.run_id = RunIdOf(st.now + run.client.now),
                            !.pc = "write"],
          disk |-> EnsureOutputDir(disk)]

\* The call of the writer for fmt.
CallWriter(fmt, disk, results, run_id, now) ==
    IF fmt = "json" THEN SaveJson(disk, results, OutputDir, run_id, now)
    ELSE IF fmt = "csv" THEN SaveCsv(disk, results, OutputDir, run_id, now)
    ELSE SaveSqlite(disk, results, OutputDir, DbName, run_id, now)

\* One pass through the loop over the writers, or the return after it.
WriteStep(st, disk) ==
    IF st.w > Len(Writers) THEN [st |-> ReturnCode(st, 0), disk |-> disk]
    ELSE IF ~Selected(st.format, Writers[st.w])
    THEN [st |-> [st EXCEPT !.w = @ + 1], disk |-> disk]
    ELSE LET w == CallWriter(Writers[st.w], disk, st.results, st.run_id, st.now)
         IN  IF w.exc # "none"
             THEN [st |-> Uncaught(st, w.exc), disk |-> w.disk]
             ELSE [st |-> [st EXCEPT !.w = @ + 1,
                                     !.now = @ + 1,
                                     !.results = w.results,
                                     !.writes = Append(@, WriterCall(Writers[st.w], st.results,
                                                                     st.run_id, disk, w))],
                   disk |-> w.disk]

---------------------------------------------------------------------------
(* SpecStorage: calls of the three writers on one output directory *)

\* Raw stat records: an id, a key outside the allow-list, and any of two
\* allow-list keys.
StorageRecords ==
    { JDict([k \in ks \cup {"rank"} |-> i]) :
        ks \in SUBSET {"userName", "kills"}, i \in 1..2 }

ResultLists == UNION { [1..n -> StorageRecords] : n \in 0..MaxResults }

RunIds == {None, "", "r1"}

\* The caller of the writers: the result list and run id it holds, its
\* clock, the number of calls it made, the number of results it handed to
\* save_sqlite, and its last call.
IdleStorage ==
    [results |-> <<>>, run_id |-> None, now |-> 0, writes |-> 0,
     handed |-> 0, last |-> NoWriterCall]

InitStorage ==
    /\ \E rs \in ResultLists, rid \in RunIds :
         sto = [IdleStorage EXCEPT !.results = rs, !.run_id = rid, !.now = 1]
    /\ fs = EmptyDisk
    /\ client = NewClient(0, 0)
    /\ call = IdleCall
    /\ wire = NoWire
    /\ ncalls = 0
    /\ pl = StartPipeline(<<>>, FALSE, 0, 0)
    /\ world = <<>>
    /\ m = IdleMain

\* The lists a caller may hand to a writer: its result list, or none.
Handed == {sto.results, <<>>}

Wrote(op, rs, w) ==
    /\ fs' = w.disk
    /\ sto' = [sto EXCEPT !.now = @ + 1,
                          !.writes = @ + 1,
                          !.handed = IF op = "save_sqlite" THEN @ + Len(rs) ELSE @,
                          !.last = WriterCall(op, rs, sto.run_id, fs, w)]
    /\ UNCHANGED <<client, call, wire, ncalls, pl, world, m>>

CallSaveJson ==
    /\ sto.writes < MaxWrites
    /\ \E rs \in Handed :
         Wrote("save_json", rs, SaveJson(fs, rs, OutputDir, sto.run_id, sto.now))

CallSaveCsv ==
    /\ sto.writes < MaxWrites
    /\ \E rs \in Handed :
         Wrote("save_csv", rs, SaveCsv(fs, rs, OutputDir, sto.run_id, sto.now))

CallSaveSqlite ==
    /\ sto.writes < MaxWrites
    /\ \E rs \in Handed :
         Wrote("save_sqlite", rs,
               SaveSqlite(fs, rs, OutputDir, DbName, sto.run_id, sto.now))

NextStorage ==
    \/ CallSaveJson
    \/ CallSaveCsv
    \/ CallSaveSqlite

SpecStorage == InitStorage /\ [][NextStorage]_vars

---------------------------------------------------------------------------
(* SpecClient: one client serving logical calls, one HTTP exchange a step *)

\* What the network can answer to one HTTP request.
WireResponses ==
    { Response(st, b, d) :
        st \in {0}, b \in {ExcText}, d \in 0..MaxLatency } \cup
    { Response(st, b, d) :
        st \in {500}, b \in {GarbageBody}, d \in 0..MaxLatency } \cup
    { Response(st, b, d) :
        st \in {404}, b \in {ErrorsBody, GarbageBody}, d \in 0..MaxLatency } \cup
    { Response(st, b, d) :
        st \in {200}, b \in {ObjBody, GarbageBody}, d \in 0..MaxLatency }

InitClient ==
    /\ \E clock \in 0..MaxStartClock, rate \in 0..MaxRateLimit :
            client = NewClient(clock, rate)
    /\ call = IdleCall
    /\ wire = NoWire
    /\ ncalls = 0
    /\ pl = StartPipeline(<<>>, FALSE, 0, 0)
    /\ world = <<>>
    /\ fs = EmptyDisk
    /\ sto = IdleStorage
    /\ m = IdleMain

\* The caller is free to make its next call.
CanCall == call.phase # "running" /\ ncalls < MaxCalls

CallGetPlayerId ==
    /\ CanCall
    /\ UNCHANGED client
    /\ call' = StartCall("get_player_id")
    /\ ncalls' = ncalls + 1
    /\ UNCHANGED <<wire, pl, world, fs, sto, m>>

CallGetStats ==
    /\ CanCall
    /\ UNCHANGED client
    /\ \E name \in {"", "bob"} :
         call' = IF StatsArgsOk(name, None)
                 THEN StartCall("get_stats")
                 ELSE LocalCall("get_stats", GetStats(client, name, None, "pc", <<>>))
    /\ ncalls' = ncalls + 1
    /\ UNCHANGED <<wire, pl, world, fs, sto, m>>

CallGetStatsBatch ==
    /\ CanCall
    /\ UNCHANGED client
    /\ \E n \in {0, 1, MAX_BATCH_IDS, MAX_BATCH_IDS + 1} :
         call' = IF BatchArgs(n) = "post"
                 THEN StartCall("get_stats_batch")
                 ELSE LocalCall("get_stats_batch",
                                GetStatsBatch(client, [i \in 1..n |-> "1"], "pc", <<>>))
    /\ ncalls' = ncalls + 1
    /\ UNCHANGED <<wire, pl, world, fs, sto, m>>

\* The endpoint's own handling of what _request answered.
EndpointResult(op, q) ==
    IF op = "get_player_id" THEN PlayerIdResult(q)
    ELSE IF op = "get_stats" THEN StatsResult(q)
    ELSE BatchResult(q)

\* One pass through the retry loop of _request: the rate-limit wait, the
\* HTTP exchange and what follows from its answer.  When the loop runs out
\* without raising, the statement after it raises.
RequestAttempt ==
    /\ call.phase = "running"
    /\ \E r \in WireResponses :
         LET o == Attempt(client, call.attempt, r)
             sends == Append(call.sends, o.sentAt)
             sleeps == call.sleeps \o o.slept
             ranOut == o.next = "continue" /\ call.attempt + 1 >= client.max_retries
             q == IF ranOut
                  THEN RequestFrom(o.client, call.attempt + 1, <<>>, sends, sleeps)
                  ELSE [ok |-> o.next = "return", value |-> o.value,
                        error |-> o.error, client |-> o.client,
                        sends |-> sends, sleeps |-> sleeps]
         IN  /\ client' = o.client
             /\ wire' = [prev |-> wire.last, last |-> o.sentAt,
                         waitedAt |-> o.waitedAt, count |-> wire.count + 1,
                         prevOp |-> wire.lastOp, lastOp |-> call.op]
             /\ call' =
                  IF o.next = "continue" /\ ~ranOut
                  THEN [call EXCEPT !.attempt = @ + 1, !.script = Append(@, r),
                                    !.sends = sends, !.sleeps = sleeps]
                  ELSE [call EXCEPT !.phase = "done", !.script = Append(@, r),
                                    !.sends = sends, !.sleeps = sleeps,
                                    !.res = EndpointResult(call.op, q),
                                    !.raises = IF EndpointResult(call.op, q).exc = "none"
                                               THEN @ ELSE @ + 1]
    /\ UNCHANGED <<ncalls, pl, world, fs, sto, m>>

NextClient ==
    \/ CallGetPlayerId
    \/ CallGetStats
    \/ CallGetStatsBatch
    \/ RequestAttempt

SpecClient == InitClient /\ [][NextClient]_vars

---------------------------------------------------------------------------
(* SpecPipeline: one run of run_pipeline, one client call a step *)

SmallDescriptors ==
    {Descriptor("bob", "pc"), Descriptor("eve", "psn"), Descriptor("", "pc")}

\* A long list of distinct players, all on one platform or alternating
\* between two.
BigList(n, mixed) ==
    [i \in 1..n |->
        Descriptor(Str(PlayerId(i)),
                   IF mixed /\ i % 2 = 0 THEN "psn" ELSE "pc")]

\* The server treats every player of a long list well, or all but one.
BigWorlds(n) ==
    { [i \in 1..n |-> IF i = h THEN "down" ELSE "ok"] :
        h \in {0, 1, BATCH_SIZE, n} }

\* The player lists explored, each with how the server treats its players.
Inputs ==
    UNION { [1..n -> SmallDescriptors] \X [1..n -> Behaviours] : n \in 0..MaxPlayers }
    \cup UNION { {BigList(n, FALSE)} \X BigWorlds(n) : n \in BigCounts }
    \cup ({BigList(MixedCount, TRUE)} \X {[i \in 1..MixedCount |-> "ok"]})

InitPipeline ==
    /\ \E in \in Inputs, use_batch \in BOOLEAN :
         /\ pl = StartPipeline(in[1], use_batch, DEFAULT_RATE_LIMIT_SEC, 0)
         /\ world = in[2]
    /\ client = NewClient(0, 0)
    /\ call = IdleCall
    /\ wire = NoWire
    /\ ncalls = 0
    /\ fs = EmptyDisk
    /\ sto = IdleStorage
    /\ m = IdleMain

Resolve ==
    /\ pl.pc = "resolve"
    /\ pl' = ResolveStep(pl, ResolveScript(world[pl.i], pl.i))
    /\ UNCHANGED <<world, client, call, wire, ncalls, fs, sto, m>>

FetchChunk ==
    /\ pl.pc = "batch"
    /\ \E b \in BatchBehaviours : pl' = BatchStep(pl, b)
    /\ UNCHANGED <<world, client, call, wire, ncalls, fs, sto, m>>

FetchSingle ==
    /\ pl.pc = "single"
    /\ pl' = SingleStep(pl, StatsScript(world[pl.i], pl.i))
    /\ UNCHANGED <<world, client, call, wire, ncalls, fs, sto, m>>

NextPipeline ==
    \/ Resolve
    \/ FetchChunk
    \/ FetchSingle

SpecPipeline == InitPipeline /\ [][NextPipeline]_vars

---------------------------------------------------------------------------
(* SpecMain: one run of the entry point *)

ArgAlphabet == {"a", ",", ";", " "}

\* The --players expressions explored.
InlineTexts == UNION { [1..n -> ArgAlphabet] : n \in 0..MaxArgLen }

ConfigEntries ==
    {Entry(TRUE, "bob", None), Entry(TRUE, "eve", "psn"), Entry(TRUE, "", "pc"),
     Entry(FALSE, "", None)}

EntryLists == UNION { [1..n -> ConfigEntries] : n \in 0..MaxPlayers }

\* The config files explored: none, one of an unknown suffix, a YAML file
\* without PyYAML, and JSON and YAML files of every shape.
ConfigCases ==
    {Config(FALSE, ".yaml", TRUE, "players", <<>>),
     Config(TRUE, ".txt", TRUE, "players", <<Entry(TRUE, "bob", None)>>),
     Config(TRUE, ".yaml", FALSE, "players", <<Entry(TRUE, "bob", None)>>)}
    \cup { Config(TRUE, sfx, TRUE, shape, <<>>) :
             sfx \in {".json", ".yaml"}, shape \in {"syntax_error", "scalar", "object"} }
    \cup { Config(TRUE, sfx, TRUE, shape, es) :
             sfx \in {".json", ".yaml"}, shape \in {"list", "players"}, es \in EntryLists }

\* How the server treats the players of a run of main.
MainBehaviours == {"ok", "down"}

InitMain ==
    /\ \E format \in {"json", "csv", "sqlite", "all"}, no_batch \in BOOLEAN :
         \/ \E text \in InlineTexts :
              m = [IdleMain EXCEPT !.pc = "start", !.now = 1,
                                   !.inline = [given |-> TRUE, text |-> text],
                                   !.format = format, !.no_batch = no_batch]
         \/ \E cfg \in ConfigCases :
              m = [IdleMain EXCEPT !.pc = "start", !.now = 1, !.config = cfg,
                                   !.format = format, !.no_batch = no_batch]
    /\ fs = EmptyDisk
    /\ sto = IdleStorage
    /\ client = NewClient(0, 0)
    /\ call = IdleCall
    /\ wire = NoWire
    /\ ncalls = 0
    /\ pl = StartPipeline(<<>>, FALSE, 0, 0)
    /\ world = <<>>

\* main up to its call of run_pipeline, whose client it constructs with the
\* default rate limit.
LoadPlayers ==
    /\ m.pc = "start"
    /\ m' = LoadPlayersStep(m)
    /\ IF m'.pc = "fetch"
       THEN /\ pl' = StartPipeline(m'.players, ~m.no_batch, DEFAULT_RATE_LIMIT_SEC, 0)
            /\ world' \in [1..Len(m'.players) -> MainBehaviours]
       ELSE UNCHANGED <<pl, world>>
    /\ UNCHANGED <<client, call, wire, ncalls, fs, sto>>

\* main from the end of run_pipeline to the creation of the output directory.
FetchStats ==
    /\ m.pc = "fetch"
    /\ pl.pc \in {"returned", "raised"}
    /\ LET r == FetchStep(m, fs, pl)
       IN  /\ m' = r.st
           /\ fs' = r.disk
    /\ UNCHANGED <<client, call, wire, ncalls, pl, world, sto>>

Write ==
    /\ m.pc = "write"
    /\ LET r == WriteStep(m, fs)
       IN  /\ m' = r.st
           /\ fs' = r.disk
    /\ UNCHANGED <<client, call, wire, ncalls, pl, world, sto>>

NextMain ==
    \/ LoadPlayers
    \/ Resolve
    \/ FetchChunk
    \/ FetchSingle
    \/ FetchStats
    \/ Write

SpecMain == InitMain /\ [][NextMain]_vars

---------------------------------------------------------------------------
(* Properties of the client *)

\* A network-level failure or an HTTP 5xx answer.
Retryable(r) == r.status = 0 \/ r.status >= 500

\* An HTTP 4xx answer.
Rejected(r) == r.status >= 400 /\ r.status < 500

\* An answer that parses.
Succeeded(r) == r.status > 0 /\ r.status < 400 /\ r.body.valid

\* Every attempt of the logical call so far ended in a network-level
\* failure or an HTTP 5xx answer.
AllFailed ==
    /\ call.script # <<>>
    /\ \A k \in 1..Len(call.script) : Retryable(call.script[k])

\* The message of the failure an attempt ended in.
FailureMessage(r) == IF r.status = 0 THEN RequestFailed(r) ELSE ServerError(r)

C2_State ==
    /\ (call.phase = "running" /\ AllFailed) =>
          /\ Len(call.script) < 3
          /\ call.sleeps = [k \in 1..Len(call.script) |-> k]
          /\ call.raises = 0
    /\ (call.phase = "done" /\ AllFailed) =>
          /\ Len(call.script) = 3
          /\ Len(call.sends) = 3
          /\ call.sleeps = <<1, 2>>
          /\ call.raises = 1
          /\ call.res.exc = "BF6APIError"
          /\ call.res.error = FailureMessage(call.script[3])
    /\ (call.script # <<>> /\ Succeeded(Last(call.script))) =>
          /\ call.phase = "done"
          /\ Len(call.script) <= 3
          /\ Len(call.sends) = Len(call.script)

\* C2: a logical call of _request (max_retries = 3) whose attempts all end
\* in a network-level failure or an HTTP 5xx answer issues exactly 3 HTTP
\* requests, sleeps 1s after the first failure and 2s after the second and
\* not after the third, and raises the client error once, with the message
\* of the third failure; a call one of whose attempts succeeds issues no
\* request after that attempt.
C2_RetryExhaustion ==
    /\ []C2_State
    /\ [][call.phase = "done" => wire'.count = wire.count]_vars

\* C2 witness: a call that failed three times, first at the network level
\* and last with an HTTP 500, and has raised.
C2_Witness ==
    /\ call.phase = "done"
    /\ Len(call.script) = 3
    /\ call.script[1].status = 0
    /\ call.script[3].status = 500
    /\ call.res.error.kind = "Server error"

\* C3: an HTTP 4xx answer on any attempt ends the logical call at once with
\* a client error: the call takes no backoff sleep for it (only those of
\* the failed attempts before it) and issues no further HTTP request.
C3_RejectionNotRetried ==
    (call.script # <<>> /\ Rejected(Last(call.script))) =>
        /\ call.phase = "done"
        /\ call.res.exc = "BF6APIError"
        /\ call.res.error.kind = "API error"
        /\ call.raises = 1
        /\ Len(call.sends) = Len(call.script)
        /\ Len(call.sleeps) = Len(call.script) - 1
        /\ client.now = Last(call.sends) + Last(call.script).latency
        /\ wire.count >= Len(call.sends)
        /\ wire.last = Last(call.sends)

\* C3 witness: a 4xx answer on the second attempt, while one attempt remains.
C3_Witness ==
    /\ call.phase = "done"
    /\ Len(call.script) = 2
    /\ call.script[1].status = 500
    /\ Rejected(call.script[2])

\* C4: every HTTP request of a client is issued at the time the rate-limit
\* wait before it stamped, and at least rate_limit_sec after the previous
\* HTTP request of that client, whichever endpoints and attempts the two
\* requests belong to.
C4_RateLimit ==
    /\ wire.count > 0 =>
          /\ wire.waitedAt <= wire.last
          /\ client.last_request_time = wire.last
    /\ wire.count > 1 => wire.last - wire.prev >= client.rate_limit_sec

\* C4 witness: two consecutive requests of different endpoints, the second
\* held back by the limiter until exactly the interval had passed.
C4_Witness ==
    /\ wire.count > 1
    /\ wire.prevOp # wire.lastOp
    /\ client.rate_limit_sec > 0
    /\ wire.waitedAt < wire.last
    /\ wire.last - wire.prev = client.rate_limit_sec

---------------------------------------------------------------------------
(* Properties of run_pipeline *)

\* run_pipeline has returned or raised.
Ended == pl.pc \in {"returned", "raised"}

\* run_pipeline took the batch branch.
BatchMode == pl.use_batch /\ Len(pl.players) > 1

\* The records the calls of a log returned, in the order of the calls.
RECURSIVE Gathered(_)
Gathered(calls) ==
    IF calls = <<>> THEN <<>>
    ELSE IF Len(calls) = 1 THEN calls[1].got
    ELSE LET h == Len(calls) \div 2
         IN  Gathered(SubSeq(calls, 1, h)) \o Gathered(SubSeq(calls, h + 1, Len(calls)))

\* The batch calls made for a platform, in the order made.
ChunksOf(platform) ==
    SelectSeq(pl.calls, LAMBDA c : c.op = "get_stats_batch" /\ c.platform = platform)

CeilDiv(n, k) == (n + k - 1) \div k

\* C1: run_pipeline never ends by propagating a client error, whichever
\* call (resolve, single fetch or batch fetch) failed: it drops the player
\* and returns the records it obtained.
C1_ClientErrorsRecovered ==
    /\ pl.exc # "BF6APIError"
    /\ pl.pc = "returned" => pl.results = Gathered(pl.calls)

\* C5: at the end of a run in batch mode, every platform group of n
\* resolved ids has had exactly ceil(n/128) batch calls, each of at most 128
\* ids, the k-th for the k-th consecutive slice of the group's ids, and the
\* results are the calls' results in the order of the calls.
C5_BatchChunking ==
    (Ended /\ BatchMode) =>
        /\ \A g \in 1..Len(pl.groups) :
             LET ids == pl.groups[g].ids
                 cs == ChunksOf(pl.groups[g].platform)
             IN  /\ Len(cs) = CeilDiv(Len(ids), 128)
                 /\ \A k \in 1..Len(cs) :
                      /\ Len(cs[k].ids) <= 128
                      /\ cs[k].exc # "ValueError"
                      /\ cs[k].ids = SubSeq(ids, 128 * (k - 1) + 1,
                                            Min(128 * k, Len(ids)))
        /\ pl.results = Gathered(pl.calls)

\* C6: in single mode every descriptor is attempted exactly once, in input
\* order, a failed fetch aborts nothing, and the list returned is the
\* records of the descriptors whose fetch succeeded, in input order.
C6_SingleModeSkipsFailures ==
    ~BatchMode =>
        /\ pl.pc # "raised"
        /\ \A k \in 1..Len(pl.calls) : pl.calls[k].op = "get_stats" /\ pl.calls[k].i = k
        /\ Ended => /\ Len(pl.calls) = Len(pl.players)
                    /\ pl.results = Gathered(pl.calls)

---------------------------------------------------------------------------
(* Properties of the storage writers *)

\* The allow-list keys a raw record has.
AllowKeys(r) == { k \in Range(SUMMARY_KEYS) : k \in DOMAIN r.d }

\* The first record of a list that has the key k.
FirstSeen(k, results) ==
    CHOOSE j \in 1..Len(results) :
        /\ k \in DOMAIN results[j].d
        /\ \A i \in 1..(j - 1) : k \notin DOMAIN results[i].d

\* The place of x in a sequence without duplicates.
IndexIn(seq, x) == CHOOSE j \in 1..Len(seq) : seq[j] = x

\* C8: the stats table holds one row per result ever handed to
\* save_sqlite; a call appends one row per result after the rows that were
\* there and leaves those untouched; a call with an empty list writes
\* nothing, creates neither the store nor the directory, and returns the
\* path of the store.
C8_SqliteAppendOnly ==
    /\ Len(fs.db.rows) = sto.handed
    /\ sto.last.op = "save_sqlite" =>
          LET old == sto.last.before.db.rows
          IN  /\ sto.last.exc = "none"
              /\ sto.last.path = PathOf(OutputDir, DbName)
              /\ Len(fs.db.rows) = Len(old) + Len(sto.last.results)
              /\ SubSeq(fs.db.rows, 1, Len(old)) = old
              /\ sto.last.results = <<>> => fs = sto.last.before

\* C8 witness: save_sqlite called a second time with the same non-empty
\* results and the same run id, the table now twice as long.
C8_Witness ==
    /\ sto.last.op = "save_sqlite"
    /\ sto.last.results # <<>>
    /\ Truthy(sto.last.run_id)
    /\ Len(sto.last.before.db.rows) = Len(sto.last.results)
    /\ Len(fs.db.rows) = 2 * Len(sto.last.results)
    /\ fs.db.rows[1]["run_id"].v = sto.last.run_id

\* C10: the header save_csv writes for a non-empty list starts with
\* fetched_at, has no duplicate, holds exactly fetched_at and the allow-list
\* keys of the records, a key of an earlier record before the keys later
\* records introduce and the keys one record introduces in allow-list
\* order; there is one row per result, in input order, with the record's
\* values.  For an empty list save_csv fails and writes nothing.
C10_CsvHeader ==
    sto.last.op = "save_csv" =>
        IF sto.last.results = <<>>
        THEN sto.last.exc = "ValueError" /\ fs = sto.last.before
        ELSE LET rs == sto.last.results
                 file == fs.csv[sto.last.path.name]
                 h == file.header
             IN  /\ sto.last.exc = "none"
                 /\ h[1] = "fetched_at"
                 /\ \A i, j \in 1..Len(h) : i # j => h[i] # h[j]
                 /\ Range(h) = {"fetched_at"} \cup UNION { AllowKeys(rs[k]) : k \in 1..Len(rs) }
                 /\ \A i, j \in 2..Len(h) :
                      i < j =>
                        \/ FirstSeen(h[i], rs) < FirstSeen(h[j], rs)
                        \/ /\ FirstSeen(h[i], rs) = FirstSeen(h[j], rs)
                           /\ IndexIn(SUMMARY_KEYS, h[i]) < IndexIn(SUMMARY_KEYS, h[j])
                 /\ Len(file.rows) = Len(rs)
                 /\ \A k \in 1..Len(rs) :
                      /\ Len(file.rows[k]) = Len(h)
                      /\ file.rows[k][1].set
                      /\ \A j \in 2..Len(h) :
                           file.rows[k][j] = IF h[j] \in DOMAIN rs[k].d
                                             THEN Cell(rs[k].d[h[j]])
                                             ELSE NoCell

\* C10 witness: the second record introduces userName, which the header
\* lists after the first record's kills.
C10_Witness ==
    /\ sto.last.op = "save_csv"
    /\ Len(sto.last.results) = 2
    /\ sto.last.path.name \in DOMAIN fs.csv
    /\ fs.csv[sto.last.path.name].header = <<"fetched_at", "kills", "userName">>

---------------------------------------------------------------------------
(* Properties of main *)

\* main takes the players from --players.
UsesInline == m.inline.given /\ m.inline.text # <<>>

\* The config file main is pointed at does not exist.
MissingConfig == ~UsesInline /\ ~m.config.exists

\* The config file exists and is malformed: an unknown suffix, a YAML file
\* with no parser for it, text that does not parse, a document that holds
\* no list of players, or an entry without a name.
MalformedConfig ==
    /\ ~UsesInline
    /\ m.config.exists
    /\ \/ m.config.suffix \notin {".json", ".yaml", ".yml"}
       \/ m.config.suffix \in {".yaml", ".yml"} /\ ~m.config.has_yaml
       \/ m.config.shape \notin {"list", "players"}
       \/ \E k \in 1..Len(m.config.entries) : ~m.config.entries[k].named

\* The player list is empty: --players holds nothing but blanks and
\* semicolons, or the config is well formed and lists no player.
EmptyPlayerList ==
    \/ UsesInline /\ \A k \in 1..Len(m.inline.text) : m.inline.text[k] \in {" ", ";"}
    \/ ~UsesInline /\ m.config.exists /\ ~MalformedConfig /\ m.config.entries = <<>>

\* run_pipeline returned an empty list and main has gone on from there.
EmptyResultSet ==
    /\ m.pc \notin {"start", "fetch"}
    /\ m.players # <<>>
    /\ pl.pc = "returned"
    /\ pl.results = <<>>

\* main has returned 1 and has touched neither a writer nor the disk.
ReturnedOneUntouched ==
    /\ m.pc = "exited"
    /\ m.how = "returned"
    /\ m.exit = 1
    /\ m.writes = <<>>
    /\ fs = EmptyDisk

\* The writers main has invoked, in the order invoked.
Invoked == [k \in 1..Len(m.writes) |-> m.writes[k].op]

\* C7: a run of main that hits a missing config file, a malformed config,
\* an empty player list or an empty result set returns exit code 1 with no
\* writer invoked and no directory or file created; exit code 0 is
\* returned only after a non-empty result list was fetched and every writer
\* the format flag selects was invoked.
C7_ExitCodes ==
    /\ (m.pc # "start" /\ (MissingConfig \/ MalformedConfig \/ EmptyPlayerList))
          => ReturnedOneUntouched
    /\ EmptyResultSet => ReturnedOneUntouched
    /\ m.exit = 0 =>
          /\ m.how = "returned"
          /\ pl.pc = "returned"
          /\ pl.results # <<>>
          /\ Invoked = SelectSeq(Writers, LAMBDA fmt : Selected(m.format, fmt))

\* C9: every writer main invokes receives the list run_pipeline returned
\* and the one non-empty run id main computed before the first of them; the
\* files and rows written carry that run id and no timestamp of a writer's
\* own; no writer changes the list.
C9_SharedResultsAndRunId ==
    /\ (m.pc = "write" \/ m.writes # <<>>) =>
          /\ Truthy(m.run_id)
          /\ m.results = pl.results
          /\ pl.pc = "returned"
    /\ \A k \in 1..Len(m.writes) :
         LET w == m.writes[k]
         IN  /\ w.results = pl.results
             /\ w.after = pl.results
             /\ w.run_id = m.run_id
             /\ w.op \in {"json", "csv"} =>
                   w.path.name = "stats_" \o m.run_id \o "." \o w.op
             /\ w.op = "json" => w.path.name \in DOMAIN fs.json
             /\ w.op = "csv" => w.path.name \in DOMAIN fs.csv
             /\ w.op = "sqlite" =>
                   /\ Len(fs.db.rows) = Len(pl.results)
                   /\ \A j \in 1..Len(fs.db.rows) :
                        fs.db.rows[j]["run_id"] = Cell(m.run_id)

\* C9 witness: main has returned 0 after all three writers wrote the two
\* records of a run.
C9_Witness ==
    /\ m.exit = 0
    /\ Len(m.writes) = 3
    /\ Len(pl.results) = 2
    /\ Len(fs.db.rows) = 2

====
